---------------------------- MODULE Spec2Model ----------------------------
(***************************************************************************)
(* AndroidLine (androidline.py): scaffold an Android project from a fixed  *)
(* template, patch app/build.gradle by three literal substitutions, make   *)
(* sure the gradlew launcher exists and is executable, and run the build.  *)
(*                                                                         *)
(* Text (file contents, paths, arguments, the ls listing) is a sequence of *)
(* one-character strings, so that substring search, path joining and the   *)
(* test 'x' in listing are computed as the code computes them.             *)
(***************************************************************************)
EXTENDS Integers, Sequences, FiniteSets, TLC

VARIABLES argv, pc, fs, log, exitCode, failure, orig

vars == <<argv, pc, fs, log, exitCode, failure, orig>>

---------------------------------------------------------------------------
(* Text helpers: Python str operations used by the program.                *)

\* s[i:i+len(t)] == t, with i counted from 1
MatchAt(s, t, i) ==
    /\ i >= 1
    /\ i + Len(t) - 1 <= Len(s)
    /\ SubSeq(s, i, i + Len(t) - 1) = t

\* str.find(t, from): first index >= from where t occurs, 0 when there is none
Find(s, t, from) ==
    LET hits == {i \in from..(Len(s) - Len(t) + 1) : MatchAt(s, t, i)}
    IN  IF hits = {} THEN 0 ELSE CHOOSE i \in hits : \A j \in hits : i <= j

\* t in s
Contains(s, t) == Find(s, t, 1) # 0

\* the number of positions of s where t occurs
Occurrences(s, t) == Cardinality({i \in 1..Len(s) : MatchAt(s, t, i)})

RECURSIVE ReplaceFrom(_, _, _, _)
\* the tail of str.replace: s[from:] with every occurrence of old, found
\* left to right without overlap, replaced by new (old is never empty here)
ReplaceFrom(s, old, new, from) ==
    LET i == Find(s, old, from)
    IN  IF i = 0
        THEN SubSeq(s, from, Len(s))
        ELSE SubSeq(s, from, i - 1) \o new \o ReplaceFrom(s, old, new, i + Len(old))

\* a replace that stops after the first occurrence, as str.replace(old, new, 1)
ReplaceFirst(s, old, new) ==
    LET i == Find(s, old, 1)
    IN  IF i = 0 THEN s
        ELSE SubSeq(s, 1, i - 1) \o new \o SubSeq(s, i + Len(old), Len(s))

\* str.replace(old, new)
Replace(s, old, new) == ReplaceFrom(s, old, new, 1)

RECURSIVE JoinAll(_)
\* the concatenation of a sequence of texts
JoinAll(parts) ==
    IF parts = <<>> THEN <<>> ELSE Head(parts) \o JoinAll(Tail(parts))

\* open(path, 'r').read(): text mode with universal newlines turns "\r\n"
\* and a lone "\r" into "\n"
ReadText(bytes) == Replace(Replace(bytes, <<"\r","\n">>, <<"\n">>), <<"\r">>, <<"\n">>)

\* open(path, 'w').write(text): "\n" is written as os.linesep, "\n" on the
\* POSIX hosts the tool's ls, chmod and sh commands assume
WriteText(text) == text

---------------------------------------------------------------------------
(* Paths.                                                                  *)

Slash == <<"/">>

\* os.path.join(a, b) of posixpath
PathJoin(a, b) ==
    IF b # <<>> /\ b[1] = "/" THEN b
    ELSE IF a = <<>> \/ a[Len(a)] = "/" THEN a \o b
    ELSE a \o Slash \o b

\* the file a path names for a process whose working directory is cwd
Resolve(cwd, path) == PathJoin(cwd, path)

\* os.getcwd(): the directory the tool is started in
Cwd == <<"/","w">>

AppName == <<"a","p","p">>
BuildGradleName == <<"b","u","i","l","d",".","g","r","a","d","l","e">>
GradlewName == <<"g","r","a","d","l","e","w">>
ApkParts == <<<<"a","p","p">>, <<"b","u","i","l","d">>, <<"o","u","t","p","u","t","s">>, <<"a","p","k">>, <<"d","e","b","u","g">>, <<"a","p","p","-","d","e","b","u","g",".","a","p","k">>>>

RECURSIVE PathJoinAll(_, _)
\* os.path.join(a, *parts)
PathJoinAll(a, parts) ==
    IF parts = <<>> THEN a ELSE PathJoinAll(PathJoin(a, Head(parts)), Tail(parts))

---------------------------------------------------------------------------
(* The file system: a function from absolute paths to entries.             *)

ModeNoExec == <<"-","r","w","-","r","-","-","r","-","-">>
ModeExec == <<"-","r","w","x","r","-","x","r","-","x">>
ModeDir == <<"d","r","w","x","r","-","x","r","-","x">>

DirEntry == [kind |-> "dir", content |-> <<>>, mode |-> ModeDir]
FileEntry(content, mode) == [kind |-> "file", content |-> content, mode |-> mode]

EmptyFs == [p \in {} |-> DirEntry]

\* os.path.exists(path)
Exists(f, path) == path \in DOMAIN f

Put(f, path, entry) == [p \in DOMAIN f \cup {path} |-> IF p = path THEN entry ELSE f[p]]

\* os.makedirs(path, exist_ok=True) on a path that is no regular file
MakeDirs(f, path) == IF Exists(f, path) THEN f ELSE Put(f, path, DirEntry)

\* open(path, 'w') then write: a new file gets the default mode, an existing
\* file keeps its mode
WriteFile(f, path, bytes) ==
    Put(f, path, FileEntry(bytes, IF Exists(f, path) THEN f[path].mode ELSE ModeNoExec))

---------------------------------------------------------------------------
(* Program constants.                                                      *)

PkgPlaceholder == <<"c","o","m",".","e","x","a","m","p","l","e",".","a","p","p">>
MinSdkPlaceholder == <<"m","i","n","S","d","k","V","e","r","s","i","o","n"," ","2","1">>
TargetSdkPlaceholder == <<"t","a","r","g","e","t","S","d","k","V","e","r","s","i","o","n"," ","3","0">>
MinSdkKey == <<"m","i","n","S","d","k","V","e","r","s","i","o","n"," ">>
TargetSdkKey == <<"t","a","r","g","e","t","S","d","k","V","e","r","s","i","o","n"," ">>

\* the f-string of create_default_build_gradle
build_gradle_content(package_name, min_sdk, target_sdk) ==
    <<"\n","a","p","p","l","y"," ","p","l","u","g","i","n",":"," ","'","c","o","m",".","a","n","d","r","o","i","d",".","a","p","p","l","i","c","a","t","i","o","n","'","\n","\n","a","n","d","r","o","i","d"," ","{","\n"," "," "," "," ","c","o","m","p","i","l","e","S","d","k","V","e","r","s","i","o","n"," ","3","0","\n"," "," "," "," ","d","e","f","a","u","l","t","C","o","n","f","i","g"," ","{","\n"," "," "," "," "," "," "," "," ","a","p","p","l","i","c","a","t","i","o","n","I","d"," ","\"">>
    \o package_name
    \o <<"\"","\n"," "," "," "," "," "," "," "," ","m","i","n","S","d","k","V","e","r","s","i","o","n"," ">>
    \o min_sdk
    \o <<"\n"," "," "," "," "," "," "," "," ","t","a","r","g","e","t","S","d","k","V","e","r","s","i","o","n"," ">>
    \o target_sdk
    \o <<"\n"," "," "," "," "," "," "," "," ","v","e","r","s","i","o","n","C","o","d","e"," ","1","\n"," "," "," "," "," "," "," "," ","v","e","r","s","i","o","n","N","a","m","e"," ","\"","1",".","0","\"","\n"," "," "," "," ","}","\n"," "," "," "," ","b","u","i","l","d","T","y","p","e","s"," ","{","\n"," "," "," "," "," "," "," "," ","r","e","l","e","a","s","e"," ","{","\n"," "," "," "," "," "," "," "," "," "," "," "," ","m","i","n","i","f","y","E","n","a","b","l","e","d"," ","f","a","l","s","e","\n"," "," "," "," "," "," "," "," "," "," "," "," ","p","r","o","g","u","a","r","d","F","i","l","e","s"," ","g","e","t","D","e","f","a","u","l","t","P","r","o","g","u","a","r","d","F","i","l","e","(","'","p","r","o","g","u","a","r","d","-","a","n","d","r","o","i","d","-","o","p","t","i","m","i","z","e",".","t","x","t","'",")",","," ","'","p","r","o","g","u","a","r","d","-","r","u","l","e","s",".","p","r","o","'","\n"," "," "," "," "," "," "," "," ","}","\n"," "," "," "," "," "," "," "," ","d","e","b","u","g"," ","{","\n"," "," "," "," "," "," "," "," "," "," "," "," ","d","e","b","u","g","g","a","b","l","e"," ","t","r","u","e","\n"," "," "," "," "," "," "," "," ","}","\n"," "," "," "," ","}","\n","}","\n","\n","d","e","p","e","n","d","e","n","c","i","e","s"," ","{","\n"," "," "," "," ","i","m","p","l","e","m","e","n","t","a","t","i","o","n"," ","'","c","o","m",".","a","n","d","r","o","i","d",".","s","u","p","p","o","r","t",":","a","p","p","c","o","m","p","a","t","-","v","7",":","2","8",".","0",".","0","'","\n","}","\n">>

---------------------------------------------------------------------------
(* Inputs and the environment.                                             *)

\* the most pieces a template descriptor is made of
MaxPieces == 2

ArgCounts == {2, 4, 5}
ProjectNames == {<<"M","y","A","p","p">>, <<"x","a","p","p">>, <<"/","w","/","a","b","s">>}
PackageNames == {<<"c","o","m",".","t","e","s","t">>, <<"c","o","m",".","e","x","a","m","p","l","e",".","a","p","p","2">>}
MinSdks == {<<"2","3">>, <<"2","1">>}
TargetSdks == {<<"3","3">>, <<"3">>}

\* what a descriptor of the template may be made of
Pieces ==
    { <<"a","p","p","l","i","c","a","t","i","o","n","I","d"," ","\"","c","o","m",".","e","x","a","m","p","l","e",".","a","p","p","\"","\n","m","i","n","S","d","k","V","e","r","s","i","o","n"," ","2","1","\n","t","a","r","g","e","t","S","d","k","V","e","r","s","i","o","n"," ","3","0","\n">>,
      <<"n","a","m","e","s","p","a","c","e"," ","c","o","m",".","e","x","a","m","p","l","e",".","a","p","p","a","r","g","e","t","S","d","k","V","e","r","s","i","o","n"," ","3","0","\n">>,
      <<"v","e","r","s","i","o","n","N","a","m","e"," ","\"","1",".","0","\"","\r","\n">>,
      <<"t","a","r","g","e","t","S","d","k","V","e","r","s","i","o","n"," ","3","0","0","\n">> }

Descriptors ==
    {JoinAll(ps) : ps \in UNION {[1..n -> Pieces] : n \in 0..MaxPieces}}

\* a file the template may or may not ship: <<>> is "not there"
NoFile == <<>>
LauncherModes == {NoFile, ModeNoExec, ModeExec}

Owners == {<<"r","o","o","t">>, <<"a","l","e","x">>}

\* subprocess.run either raises (the executable cannot be started) or
\* returns the child's return code
Raised == [raised |-> TRUE, returncode |-> 1]
Returned(rc) == [raised |-> FALSE, returncode |-> rc]
Outcomes == {Raised, Returned(0), Returned(1)}

---------------------------------------------------------------------------
(* The trace of what the run did.                                          *)

\* an event: what was done, the file it resolved to, a detail, and how it
\* ended ("ok", "failed": a non-zero return code, "raised": an exception)
Ev(op, target, info, result) ==
    [op |-> op, target |-> target, info |-> info, result |-> result]
print_colored(msg) == Ev("print", <<>>, msg, "ok")
Result(out) ==
    IF out.raised THEN "raised" ELSE IF out.returncode = 0 THEN "ok" ELSE "failed"

Count(l, op) == Cardinality({i \in 1..Len(l) : l[i].op = op})
Said(l, msg) == \E i \in 1..Len(l) : l[i] = print_colored(msg)

\* sys.exit(code), or the interpreter ending: an uncaught exception ends it
\* with status 1, falling off main with status 0
Exit(code, why) ==
    /\ pc' = "done"
    /\ exitCode' = code
    /\ failure' = why

Continue(next) ==
    /\ pc' = next
    /\ UNCHANGED <<exitCode, failure>>

NoDescriptor == [present |-> FALSE, content |-> <<>>]

Init ==
    /\ argv \in [n : ArgCounts, project_name : ProjectNames,
                 package_name : PackageNames, min_sdk : MinSdks,
                 target_sdk : TargetSdks]
    /\ pc = "main"
    /\ \E before \in {"nothing", "dir", "file"} :
          fs = CASE before = "nothing" -> EmptyFs
                 [] before = "dir" -> Put(EmptyFs, Resolve(Cwd, argv.project_name), DirEntry)
                 [] before = "file" -> Put(EmptyFs, Resolve(Cwd, argv.project_name),
                                           FileEntry(<<>>, ModeNoExec))
    /\ log = <<>>
    /\ exitCode = -1
    /\ failure = "none"
    /\ orig = NoDescriptor

---------------------------------------------------------------------------
(* main: the argument check and the project directory.                     *)

\* an argument check that only rejects too few arguments
ArgsOkAtLeast(a) == a.n >= 4

\* len(sys.argv) != 5 fails: exactly four arguments follow the script name
ArgsOk(a) == a.n = 4

main ==
    /\ pc = "main"
    /\ UNCHANGED <<argv, orig>>
    /\ IF ~ArgsOk(argv)
       THEN /\ log' = log \o <<print_colored("usage")>>
            /\ fs' = fs
            /\ Exit(1, "usage")
       ELSE LET dir == Resolve(Cwd, argv.project_name)
                said == log \o <<print_colored("arguments"), print_colored("creating")>>
            IN  IF Exists(fs, dir) /\ fs[dir].kind = "file"
                THEN \* os.makedirs raises FileExistsError
                     /\ log' = said \o <<Ev("mkdir", dir, "", "raised")>>
                     /\ fs' = fs
                     /\ Exit(1, "exception")
                ELSE /\ log' = said \o <<Ev("mkdir", dir, "", "ok")>>
                     /\ fs' = MakeDirs(fs, dir)
                     /\ Continue("clone")

---------------------------------------------------------------------------
(* clone_template.                                                         *)

\* the nested path a relative project name gives when it is resolved inside
\* the project directory
NestedLauncher(project_name) ==
    Resolve(Resolve(Cwd, project_name), PathJoin(project_name, GradlewName))

\* what a successful git clone leaves in the project directory
Populate(f, project_name, descriptor, launcher, nested) ==
    LET dir == Resolve(Cwd, project_name)
        f1 == IF descriptor.present
              THEN Put(Put(f, PathJoin(dir, AppName), DirEntry),
                       PathJoinAll(dir, <<AppName, BuildGradleName>>),
                       FileEntry(descriptor.content, ModeNoExec))
              ELSE f
        f2 == IF launcher # NoFile
              THEN Put(f1, PathJoin(dir, GradlewName), FileEntry(<<>>, launcher))
              ELSE f1
    IN  IF nested # NoFile /\ ~Exists(f2, NestedLauncher(project_name))
        THEN Put(f2, NestedLauncher(project_name), FileEntry(<<>>, nested))
        ELSE f2

\* a clone whose return code is never looked at
CloneFailedNever(out) == FALSE

\* a clone whose return code is tested the wrong way round
CloneFailedInverted(out) == out.returncode = 0

\* result.returncode != 0
CloneFailed(out) == out.returncode # 0

clone_template ==
    /\ pc = "clone"
    /\ UNCHANGED <<argv, orig>>
    /\ \E out \in Outcomes :
          LET dir == Resolve(Cwd, argv.project_name)
              ran == log \o <<print_colored("cloning"), Ev("clone", dir, "", Result(out))>>
          IN  IF out.raised
              THEN /\ log' = ran
                   /\ fs' = fs
                   /\ Exit(1, "exception")
              ELSE IF CloneFailed(out)
              THEN /\ log' = ran \o <<print_colored("clone failed")>>
                   /\ fs' = fs
                   /\ Exit(1, "clone")
              ELSE /\ log' = ran
                   /\ \E content \in Descriptors, present \in BOOLEAN,
                         launcher \in LauncherModes, nested \in {NoFile, ModeNoExec} :
                         /\ ~present => content = <<>>
                         /\ fs' = Populate(fs, argv.project_name,
                                           [present |-> present, content |-> content],
                                           launcher, nested)
                   /\ Continue("customize")

---------------------------------------------------------------------------
(* customize_project and create_default_build_gradle.                      *)

\* the three str.replace calls, in the order the code makes them
Substitute(build_content, package_name, min_sdk, target_sdk) ==
    LET c1 == Replace(build_content, PkgPlaceholder, package_name)
        c2 == Replace(c1, MinSdkPlaceholder, MinSdkKey \o min_sdk)
    IN  Replace(c2, TargetSdkPlaceholder, TargetSdkKey \o target_sdk)

\* create_default_build_gradle(project_path, package_name, min_sdk, target_sdk)
create_default_build_gradle(f, project_path, package_name, min_sdk, target_sdk) ==
    LET app_path == PathJoin(project_path, AppName)
    IN  WriteFile(MakeDirs(f, app_path), PathJoin(app_path, BuildGradleName),
                  WriteText(build_gradle_content(package_name, min_sdk, target_sdk)))

customize_project ==
    /\ pc = "customize"
    /\ UNCHANGED argv
    /\ LET project_path == PathJoin(Cwd, argv.project_name)
           build_gradle == PathJoinAll(project_path, <<AppName, BuildGradleName>>)
           missing == ~Exists(fs, build_gradle)
           fs1 == IF missing
                  THEN create_default_build_gradle(fs, project_path, argv.package_name,
                                                argv.min_sdk, argv.target_sdk)
                  ELSE fs
           log1 == IF missing THEN log \o <<print_colored("descriptor missing"),
                                            Ev("write", build_gradle, "default", "ok")>>
                   ELSE log
       IN  /\ orig' = IF missing THEN NoDescriptor
                      ELSE [present |-> TRUE, content |-> fs[build_gradle].content]
           /\ \E readable \in BOOLEAN :
                 /\ missing => readable
                 /\ IF ~readable
                    THEN \* open or read raises: the file cannot be read or decoded
                         /\ log' = log1 \o <<Ev("read", build_gradle, "", "raised")>>
                         /\ fs' = fs1
                         /\ Exit(1, "exception")
                    ELSE LET build_content == Substitute(ReadText(fs1[build_gradle].content),
                                                         argv.package_name, argv.min_sdk,
                                                         argv.target_sdk)
                         IN  /\ fs' = WriteFile(fs1, build_gradle, WriteText(build_content))
                             /\ log' = log1 \o <<Ev("read", build_gradle, "", "ok"),
                                                Ev("write", build_gradle, "customized", "ok"),
                                                print_colored("customized")>>
                             /\ Continue("ensure")

---------------------------------------------------------------------------
(* ensure_gradlew.                                                         *)

\* gradlew_path = os.path.join(project_name, 'gradlew')
gradlew_path(project_name) == PathJoin(project_name, GradlewName)

\* the file os.path.exists(gradlew_path) and ls -l gradlew_path look at: the
\* path is resolved in the tool's own working directory
InspectedLauncher(project_name) == Resolve(Cwd, gradlew_path(project_name))

\* the file gradle wrapper, run with cwd=project_name, generates
GeneratedLauncher(project_name) == Resolve(Resolve(Cwd, project_name), GradlewName)

\* the file chmod +x gradlew_path names when run with cwd=project_name
GrantedLauncher(project_name) ==
    Resolve(Resolve(Cwd, project_name), gradlew_path(project_name))

\* the output of ls -l path for a file of that mode and owner
Listing(mode, owner, path) ==
    mode \o <<" ","1"," ">> \o owner \o <<" ">> \o owner \o <<" ","0"," ","J","a","n"," "," ","1"," ","0","0",":","0","0"," ">> \o path

\* not ('x' not in permissions)
HasExecute(permissions) == Contains(permissions, <<"x">>)

\* a validator that never generates the launcher
NeedsWrapperNever(f, launcher) == FALSE

\* not os.path.exists(gradlew_path), the test of line 89
NeedsWrapper(f, launcher) == ~Exists(f, launcher)

\* lines 86-94: generate the launcher when it is not there
ensure_gradlew_wrapper ==
    /\ pc = "ensure"
    /\ UNCHANGED <<argv, orig>>
    /\ LET launcher == InspectedLauncher(argv.project_name)
           looked == log \o <<Ev("exists", launcher,
                                  IF Exists(fs, launcher) THEN "present" ELSE "absent",
                                  "ok")>>
       IN  IF NeedsWrapper(fs, launcher)
           THEN \E out \in Outcomes, made \in LauncherModes :
                   LET ran == looked \o <<print_colored("gradlew not found"),
                                          Ev("wrapper", GeneratedLauncher(argv.project_name), "",
                                             Result(out))>>
                   IN  IF out.raised
                       THEN /\ log' = ran
                            /\ fs' = fs
                            /\ Exit(1, "exception")
                       ELSE IF out.returncode # 0
                       THEN /\ log' = ran \o <<print_colored("wrapper failed")>>
                            /\ fs' = fs
                            /\ Exit(1, "wrapper")
                       ELSE /\ log' = ran
                            /\ fs' = IF made = NoFile THEN fs
                                     ELSE Put(fs, GeneratedLauncher(argv.project_name),
                                              FileEntry(<<>>, made))
                            /\ Continue("check")
           ELSE /\ log' = looked
                /\ fs' = fs
                /\ Continue("check")

\* lines 97-105 and 111-115: inspect the launcher's permissions
ensure_gradlew_check ==
    /\ pc = "check"
    /\ UNCHANGED <<argv, orig, fs>>
    /\ LET launcher == InspectedLauncher(argv.project_name)
           looked == log \o <<Ev("exists", launcher,
                                  IF Exists(fs, launcher) THEN "present" ELSE "absent",
                                  "ok")>>
       IN  IF ~Exists(fs, launcher)
           THEN /\ log' = looked \o <<print_colored("gradlew still not found")>>
                /\ Exit(1, "nolauncher")
           ELSE \E out \in Outcomes, owner \in Owners :
                   LET ran == looked \o <<print_colored("checking permissions"),
                                          Ev("ls", launcher,
                                             IF fs[launcher].mode = ModeExec
                                             THEN "exec" ELSE "noexec",
                                             Result(out))>>
                       permissions == Listing(fs[launcher].mode, owner,
                                              gradlew_path(argv.project_name))
                   IN  IF out.raised
                       THEN /\ log' = ran
                            /\ Exit(1, "exception")
                       ELSE IF out.returncode # 0
                       THEN /\ log' = ran \o <<print_colored("check failed")>>
                            /\ Exit(1, "inspect")
                       ELSE IF ~HasExecute(permissions)
                       THEN /\ log' = ran
                            /\ Continue("chmod")
                       ELSE /\ log' = ran \o <<print_colored("already executable")>>
                            /\ Continue("build")

\* lines 106-110: grant execute permission
ensure_gradlew_chmod ==
    /\ pc = "chmod"
    /\ UNCHANGED <<argv, orig>>
    /\ \E out \in Outcomes :
          LET target == GrantedLauncher(argv.project_name)
              ran == log \o <<print_colored("setting permissions"), Ev("chmod", target, "", Result(out))>>
          IN  \* chmod cannot succeed on a file that is not there
              /\ (~out.raised /\ out.returncode = 0) => Exists(fs, target)
              /\ IF out.raised
                 THEN /\ log' = ran
                      /\ fs' = fs
                      /\ Exit(1, "exception")
                 ELSE IF out.returncode # 0
                 THEN /\ log' = ran \o <<print_colored("chmod failed")>>
                      /\ fs' = fs
                      /\ Exit(1, "grant")
                 ELSE /\ log' = ran
                      /\ fs' = Put(fs, target, FileEntry(fs[target].content, ModeExec))
                      /\ Continue("build")

---------------------------------------------------------------------------
(* compile_project, after its call of ensure_gradlew.                      *)

\* the launcher sh is given: os.path.join(os.getcwd(), project_name, 'gradlew'),
\* resolved in cwd=project_path
BuiltLauncher(project_name) ==
    LET project_path == PathJoin(Cwd, project_name)
    IN  Resolve(project_path, PathJoin(project_path, GradlewName))

apk_path(project_name) == PathJoinAll(PathJoin(Cwd, project_name), ApkParts)

\* a build whose return code is never looked at
BuildFailedNever(out) == FALSE

\* result.returncode != 0
BuildFailed(out) == out.returncode # 0

\* lines 125-135: run the build
compile_project_build ==
    /\ pc = "build"
    /\ UNCHANGED <<argv, orig>>
    /\ \E out \in Outcomes, apk \in BOOLEAN :
          LET target == BuiltLauncher(argv.project_name)
              ran == log \o <<print_colored("compiling"), Ev("build", target, "assembleDebug", Result(out))>>
          IN  /\ (~out.raised /\ out.returncode = 0) => Exists(fs, target)
              /\ IF out.raised
                 THEN /\ log' = ran
                      /\ fs' = fs
                      /\ Exit(1, "exception")
                 ELSE IF BuildFailed(out)
                 THEN /\ log' = ran \o <<print_colored("build failed"), print_colored("gradle error output")>>
                      /\ fs' = fs
                      /\ Exit(1, "build")
                 ELSE /\ log' = ran \o <<print_colored("build successful")>>
                      /\ fs' = IF apk
                               THEN Put(fs, apk_path(argv.project_name),
                                        FileEntry(<<>>, ModeNoExec))
                               ELSE fs
                      /\ Continue("apk")

\* lines 138-142: look for the artifact; main then returns
compile_project_apk ==
    /\ pc = "apk"
    /\ UNCHANGED <<argv, orig, fs>>
    /\ LET path == apk_path(argv.project_name)
           looked == log \o <<Ev("apk", path,
                                  IF Exists(fs, path) THEN "present" ELSE "absent",
                                  "ok")>>
       IN  log' = looked \o <<IF Exists(fs, path)
                              THEN print_colored("apk built") ELSE print_colored("apk not found")>>
    /\ Exit(0, "none")

Next ==
    \/ main
    \/ clone_template
    \/ customize_project
    \/ ensure_gradlew_wrapper
    \/ ensure_gradlew_check
    \/ ensure_gradlew_chmod
    \/ compile_project_build
    \/ compile_project_apk

Spec == Init /\ [][Next]_vars


---------------------------------------------------------------------------
(* Properties.                                                             *)

Positions(op) == {i \in 1..Len(log) : log[i].op = op}
Happened(op) == Positions(op) # {}
Ended(op, result) == \E i \in Positions(op) : log[i].result = result
AnyRaised == \E i \in 1..Len(log) : log[i].result = "raised"

\* the stage an event belongs to: 1 initialize, 2 customize, 3 validate the
\* wrapper, 4 build; 0 for the messages that belong to no stage
StageOf(e) ==
    CASE e.op \in {"mkdir", "clone"} -> 1
      [] e.op \in {"read", "write"} -> 2
      [] e.op \in {"exists", "wrapper", "ls", "chmod"} -> 3
      [] e.op \in {"build", "apk"} -> 4
      [] e = print_colored("cloning") \/ e = print_colored("clone failed") -> 1
      [] e = print_colored("descriptor missing") \/ e = print_colored("customized") -> 2
      [] e = print_colored("build successful") \/ e = print_colored("apk built") \/ e = print_colored("apk not found") -> 4
      [] OTHER -> 0

BuildGradlePath == PathJoinAll(Cwd, <<argv.project_name, AppName, BuildGradleName>>)
LauncherFile == PathJoinAll(Cwd, <<argv.project_name, GradlewName>>)
Customized == Said(log, "customized")
DescriptorOnDisk == fs[BuildGradlePath].content

\* C1: with four arguments the stages run in the order initialize, customize,
\* validate wrapper, build, none twice and none skipped, and a fatal failure
\* ends the run at once: nothing of the descriptor is read or written after
\* a failed clone, the build is never run after a failed wrapper generation,
\* permission inspection or permission grant, and neither the success
\* message nor the artifact check follows a failed build.
C1_StagesInOrder ==
    argv.n = 4 =>
        /\ \A i, j \in 1..Len(log) :
              (i < j /\ StageOf(log[i]) # 0 /\ StageOf(log[j]) # 0)
                  => StageOf(log[i]) <= StageOf(log[j])
        /\ \A op \in {"mkdir", "clone", "read", "wrapper", "ls", "chmod", "build", "apk"} :
              Count(log, op) <= 1
        /\ Happened("clone") => Happened("mkdir")
        /\ Happened("read") => Ended("clone", "ok")
        /\ Happened("exists") => Ended("read", "ok")
        /\ Happened("build") => Ended("ls", "ok")
        /\ Happened("apk") => Ended("build", "ok")
        /\ (Happened("clone") /\ ~Ended("clone", "ok"))
              => (pc = "done" /\ exitCode = 1 /\ ~Happened("read") /\ ~Happened("write"))
        /\ \A op \in {"wrapper", "ls", "chmod"} :
              (Happened(op) /\ ~Ended(op, "ok"))
                  => (pc = "done" /\ exitCode = 1 /\ ~Happened("build"))
        /\ (Happened("build") /\ ~Ended("build", "ok"))
              => (pc = "done" /\ exitCode = 1 /\ ~Said(log, "build successful")
                  /\ ~Happened("apk"))

\* C1 witness: a run whose build failed after all earlier stages ran
C1_Witness ==
    /\ argv.n = 4
    /\ pc = "done"
    /\ Ended("build", "failed")
    /\ Ended("chmod", "ok")
    /\ Ended("wrapper", "ok")

\* a fatal failure the spec lists: a clone, wrapper-generation, permission
\* inspection, permission grant or build command that returned non-zero
ListedFailure == \E op \in {"clone", "wrapper", "ls", "chmod", "build"} : Ended(op, "failed")

\* the launcher is still not there after a wrapper generation that succeeded
LauncherStillMissing ==
    /\ Ended("wrapper", "ok")
    /\ Said(log, "gradlew still not found")

\* C2 as stated: a run with four arguments in which nothing raised exits 1
\* exactly when one of the four listed failures occurred, and 0 otherwise.
C2_ExitCodeAsStated ==
    (pc = "done" /\ argv.n = 4 /\ ~AnyRaised)
        => /\ exitCode \in {0, 1}
           /\ exitCode = 1 <=> ListedFailure

\* C2 amended: a run with four arguments exits 1 exactly when a listed
\* failure occurred, or the launcher is still absent after a successful
\* wrapper generation, or a step raised an uncaught exception; otherwise it
\* exits 0, and a run whose build returned success exits 0 whether or not
\* the artifact exists, its absence only producing a message.
C2_ExitCode ==
    (pc = "done" /\ argv.n = 4)
        => /\ exitCode \in {0, 1}
           /\ exitCode = 1 <=> (ListedFailure \/ LauncherStillMissing \/ AnyRaised)
           /\ Ended("build", "ok")
                 => /\ exitCode = 0
                    /\ Said(log, "apk not found") <=> ~Exists(fs, apk_path(argv.project_name))
                    /\ Said(log, "apk built") <=> Exists(fs, apk_path(argv.project_name))

\* C2 witness: the build succeeded, the artifact is missing, the exit code is 0
C2_Witness ==
    /\ pc = "done"
    /\ argv.n = 4
    /\ Ended("build", "ok")
    /\ ~Exists(fs, apk_path(argv.project_name))
    /\ Said(log, "apk not found")
    /\ exitCode = 0

\* C3: when the number of arguments is not four, the run prints the usage
\* message and ends with exit code 1, and no step of it changes the file
\* system or invokes a command.
C3_WrongArgumentCount ==
    /\ [](argv.n # 4 =>
            /\ pc \in {"main", "done"}
            /\ log \in {<<>>, <<print_colored("usage")>>}
            /\ pc = "done" => (exitCode = 1 /\ log = <<print_colored("usage")>>))
    /\ [][argv.n # 4 => fs' = fs]_vars

\* C3 witness: a run with five arguments has ended
C3_Witness ==
    /\ argv.n = 5
    /\ pc = "done"
    /\ exitCode = 1

Placeholders == {PkgPlaceholder, MinSdkPlaceholder, TargetSdkPlaceholder}

\* the value the arguments give for a placeholder
ReplacementFor(p) ==
    CASE p = PkgPlaceholder -> argv.package_name
      [] p = MinSdkPlaceholder -> MinSdkKey \o argv.min_sdk
      [] p = TargetSdkPlaceholder -> TargetSdkKey \o argv.target_sdk

RECURSIVE AllReplacedFrom(_, _)
\* text[from:] with, in one pass from the left, every placeholder that starts
\* at a position of the text replaced by its value and all else kept
AllReplacedFrom(text, from) ==
    LET hits == {i \in from..Len(text) : \E p \in Placeholders : MatchAt(text, p, i)}
    IN  IF hits = {}
        THEN SubSeq(text, from, Len(text))
        ELSE LET i == CHOOSE k \in hits : \A j \in hits : k <= j
                 p == CHOOSE q \in Placeholders : MatchAt(text, q, i)
             IN  SubSeq(text, from, i - 1) \o ReplacementFor(p)
                     \o AllReplacedFrom(text, i + Len(p))

HasAllPlaceholders(text) == \A p \in Placeholders : Contains(text, p)
HasNoPlaceholder(text) == \A p \in Placeholders : ~Contains(text, p)

Digits == {"0", "1", "2", "3", "4", "5", "6", "7", "8", "9"}
IsPrefix(t, s) == MatchAt(s, t, 1)

\* a package name that contains no placeholder, and numeric versions that
\* do not start as the placeholders' versions do
PlainArguments ==
    /\ HasNoPlaceholder(argv.package_name)
    /\ \A i \in 1..Len(argv.min_sdk) : argv.min_sdk[i] \in Digits
    /\ \A i \in 1..Len(argv.target_sdk) : argv.target_sdk[i] \in Digits
    /\ ~IsPrefix(<<"2","1">>, argv.min_sdk)
    /\ ~IsPrefix(<<"3","0">>, argv.target_sdk)

\* every package placeholder stands between double quotes and no version
\* placeholder is directly followed by a digit
Delimited(text) ==
    \A i \in 1..Len(text) :
        /\ MatchAt(text, PkgPlaceholder, i)
              => /\ i > 1 /\ text[i - 1] = "\""
                 /\ i + Len(PkgPlaceholder) <= Len(text)
                 /\ text[i + Len(PkgPlaceholder)] = "\""
        /\ \A p \in {MinSdkPlaceholder, TargetSdkPlaceholder} :
              MatchAt(text, p, i)
                  => (i + Len(p) > Len(text) \/ text[i + Len(p)] \notin Digits)

\* C4 as stated: for every argument, when the descriptor holds the three
\* placeholders, the customized descriptor holds none of them and has the
\* supplied value at each former placeholder position.
C4_SubstitutionAsStated ==
    (pc = "ensure" /\ orig.present /\ HasAllPlaceholders(orig.content))
        => /\ \A p \in Placeholders : Occurrences(DescriptorOnDisk, p) = 0
           /\ DescriptorOnDisk = AllReplacedFrom(ReadText(orig.content), 1)

\* C4 amended: for a package name that contains none of the placeholders
\* and digit-only versions that do not start with 21 (min_sdk) or 30
\* (target_sdk), when the descriptor text as read holds the three
\* placeholders, each com.example.app between double quotes and no version
\* placeholder directly followed by a digit, the customized descriptor
\* holds none of the placeholders and is that text with the supplied value
\* at each former placeholder position.
C4_Substitution ==
    (pc = "ensure" /\ orig.present /\ PlainArguments)
        => LET text == ReadText(orig.content)
           IN  (HasAllPlaceholders(text) /\ Delimited(text))
                   => /\ \A p \in Placeholders : Occurrences(DescriptorOnDisk, p) = 0
                      /\ DescriptorOnDisk = AllReplacedFrom(text, 1)

\* C4 witness: a descriptor holding each placeholder twice was customized
\* with plain arguments
C4_Witness ==
    /\ pc = "ensure"
    /\ orig.present
    /\ \A p \in Placeholders : Occurrences(ReadText(orig.content), p) = 2
    /\ Delimited(ReadText(orig.content))
    /\ PlainArguments
    /\ \A p \in Placeholders : Occurrences(DescriptorOnDisk, ReplacementFor(p)) = 2

\* C5: when app/build.gradle is absent, the descriptor on disk after
\* customization declares the supplied package name and versions verbatim.
C5_SynthesizedVerbatim ==
    (Customized /\ Said(log, "descriptor missing"))
        => /\ Contains(DescriptorOnDisk,
                       <<"a","p","p","l","i","c","a","t","i","o","n","I","d"," ","\"">> \o argv.package_name \o <<"\"","\n">>)
           /\ Contains(DescriptorOnDisk,
                       <<" ","m","i","n","S","d","k","V","e","r","s","i","o","n"," ">> \o argv.min_sdk \o <<"\n">>)
           /\ Contains(DescriptorOnDisk,
                       <<" ","t","a","r","g","e","t","S","d","k","V","e","r","s","i","o","n"," ">> \o argv.target_sdk \o <<"\n">>)

\* C6: an existing descriptor that holds none of the placeholders is left
\* byte for byte unchanged by a customization that ran to its end.
C6_NoPlaceholderUnchanged ==
    (Customized /\ orig.present /\ HasNoPlaceholder(orig.content))
        => DescriptorOnDisk = orig.content

\* C7: when ls -l succeeded on a launcher without execute permission, the
\* grant is attempted exactly once, and the run ends with exit code 1 when
\* the attempt does not succeed.
C7_GrantAttemptedOnce ==
    (/\ \E i \in Positions("ls") : log[i].info = "noexec" /\ log[i].result = "ok"
     /\ pc # "chmod")
        => /\ Count(log, "chmod") = 1
           /\ ~Ended("chmod", "ok") => (pc = "done" /\ exitCode = 1)

\* the launcher was there (or not) when the validator first looked
LauncherAtStart(info) ==
    /\ Happened("exists")
    /\ log[CHOOSE i \in Positions("exists") : \A j \in Positions("exists") : i <= j].info = info

\* C8: a launcher absent when the validator starts has wrapper generation
\* invoked, before any ls or chmod; a launcher present has it never invoked.
C8_WrapperBeforePermissions ==
    /\ LauncherAtStart("absent")
          => /\ Count(log, "wrapper") = 1
             /\ \A w \in Positions("wrapper") : \A i \in Positions("ls") \cup Positions("chmod") :
                   w < i
    /\ LauncherAtStart("present") => ~Happened("wrapper")
    /\ Happened("exists") => log[CHOOSE i \in Positions("exists") :
                                     \A j \in Positions("exists") : i <= j].target = LauncherFile

\* C8 witness: the launcher was absent, was generated, inspected and granted
C8_Witness ==
    /\ LauncherAtStart("absent")
    /\ Ended("wrapper", "ok")
    /\ Ended("ls", "ok")
    /\ Happened("chmod")

\* C9 as stated: a run with four arguments whose clone succeeded, and in
\* which nothing raised, does not end before the build launcher is run.
C9_ReachesBuildAsStated ==
    (pc = "done" /\ argv.n = 4 /\ Ended("clone", "ok") /\ ~AnyRaised)
        => \E i \in Positions("build") : log[i].info = "assembleDebug"

\* C9 amended: a run with four arguments whose clone succeeded ends before
\* the build launcher is run only with exit code 1 and only because wrapper
\* generation, permission inspection or permission grant failed, the
\* launcher was still absent after wrapper generation, or a step raised an
\* uncaught exception; otherwise the launcher is run with assembleDebug.
C9_ReachesBuild ==
    (pc = "done" /\ argv.n = 4 /\ Ended("clone", "ok"))
        => \/ \E i \in Positions("build") :
                 log[i].info = "assembleDebug" /\ log[i].target = LauncherFile
           \/ /\ exitCode = 1
              /\ \/ \E op \in {"wrapper", "ls", "chmod"} : Ended(op, "failed")
                 \/ LauncherStillMissing
                 \/ AnyRaised

\* C9 witness: a run reached the build after generating and granting
C9_Witness ==
    /\ pc = "done"
    /\ argv.n = 4
    /\ Ended("clone", "ok")
    /\ Ended("wrapper", "ok")
    /\ Ended("chmod", "ok")
    /\ Happened("build")

\* C10: every command that names the launcher resolves to <project>/gradlew
\* under the directory the tool was started in, and a grant that succeeded
\* leaves the inspected launcher executable.
C10_SameLauncher ==
    /\ \A i \in 1..Len(log) :
          log[i].op \in {"exists", "ls", "chmod", "build"} => log[i].target = LauncherFile
    /\ (Ended("chmod", "ok") /\ Exists(fs, LauncherFile)) => fs[LauncherFile].mode = ModeExec

===========================================================================
